---- MODULE Spec2Model ----
(***************************************************************************)
(* Model of src/file_manager1.py: one FileManager object (its fields        *)
(* current_user, user_dir, metadata_file, metadata) working on a root       *)
(* directory that holds one private directory per user.  The filesystem     *)
(* and the platform ACL calls are the environment: each call that can fail  *)
(* takes its outcome as an input of the step.                               *)
(***************************************************************************)
EXTENDS Integers, Sequences, FiniteSets, TLC

VARIABLES current_user, user_dir, metadata_file, metadata,
          dirs, dirAcl, files, fileAcl, lastOp, ops, faulted

\* current_user, user_dir, metadata_file, metadata: the FileManager's fields.
\* dirs[u]: the directory of u exists; dirAcl[u]: it carries the protected ACL.
\* files[u][n]: what the file n of u's directory holds; fileAcl[u]: the files
\* of u's directory that carry the protected ACL.
\* lastOp: the last call, its result, the place it returned from and whether
\* it repeats the call before it (same operation, same argument).
\* ops: the number of calls made so far; faulted: a filesystem or ACL call
\* of one of them has failed.
vars == <<current_user, user_dir, metadata_file, metadata,
          dirs, dirAcl, files, fileAcl, lastOp, ops, faulted>>

(***************************************************************************)
(* Bounds                                                                   *)
(***************************************************************************)
\* MaxLen: the longest source file, in bytes; MaxOps: the longest run, in calls.
MaxLen == 1
MaxOps == 4

(***************************************************************************)
(* Values                                                                   *)
(***************************************************************************)
Users == {"alice", "bob"}
MetaName == "metadata.json"
Names == {"a.txt", MetaName}
RootDir == "vault"
None == "None"
NoPath == <<>>
Permissions == "rw-r--r--"
MicrosPerSecond == 1000000

Bytes == {1}
Contents == UNION {[1..n -> Bytes] : n \in 0..MaxLen}
\* (st_ctime, st_mtime) of a copied file, in microseconds: copy2 keeps the
\* source's modification time, the creation time is the time of the copy.
StatTimes == {[ct |-> MicrosPerSecond + 1, mt |-> MicrosPerSecond]}

\* What a path of the vault holds.
Absent == [kind |-> "absent"]
Raw(data) == [kind |-> "raw", data |-> data]
Json(doc) == [kind |-> "json", doc |-> doc]

EmptyMap == [k \in {} |-> 0]

\* os.path.join(a, b): a path of the vault is the pair <<directory, base name>>.
PathJoin(d, name) == <<d, name>>
\* os.path.basename(path)
Basename(path) == path[2]
Dirname(path) == path[1]

(***************************************************************************)
(* FileMetadata and its text form                                           *)
(***************************************************************************)
\* IsoFormat cut to whole seconds, as isoformat(timespec='seconds') writes.
IsoFormatSeconds(t) == <<t \div MicrosPerSecond>>

\* datetime.isoformat(): the fraction is written only when it is not zero.
IsoFormat(t) ==
    IF t % MicrosPerSecond = 0
    THEN <<t \div MicrosPerSecond>>
    ELSE <<t \div MicrosPerSecond, t % MicrosPerSecond>>

\* datetime.fromisoformat()
FromIsoFormat(s) ==
    IF Len(s) = 1 THEN s[1] * MicrosPerSecond
    ELSE s[1] * MicrosPerSecond + s[2]

FileMetadata(filename, path, size, created_at, modified_at, owner, permissions, is_encrypted) ==
    [filename |-> filename, path |-> path, size |-> size,
     created_at |-> created_at, modified_at |-> modified_at,
     owner |-> owner, permissions |-> permissions, is_encrypted |-> is_encrypted]

to_dict(m) ==
    [filename |-> m.filename, path |-> m.path, size |-> m.size,
     created_at |-> IsoFormat(m.created_at),
     modified_at |-> IsoFormat(m.modified_at),
     owner |-> m.owner, permissions |-> m.permissions,
     is_encrypted |-> m.is_encrypted]

from_dict(d) ==
    FileMetadata(d.filename, d.path, d.size,
                 FromIsoFormat(d.created_at), FromIsoFormat(d.modified_at),
                 d.owner, d.permissions, d.is_encrypted)

(***************************************************************************)
(* Size of a file                                                           *)
(***************************************************************************)
RECURSIVE Digits(_)
Digits(n) == IF n < 10 THEN 1 ELSE 1 + Digits(n \div 10)

\* Length of the text isoformat() writes: YYYY-MM-DDTHH:MM:SS[.ffffff]
IsoLen(s) == IF Len(s) = 1 THEN 19 ELSE 26

\* Length of a vault path as json.dump writes it (separators escaped).
PathLen(p) == Len(RootDir) + 2 + Len(p[1]) + 2 + Len(p[2])

\* Length of one "key": {...} entry of json.dump(data, f, indent=4).
EntryLen(k, d) ==
    (Len(k) + 9) + 1
    + 161 + 14
    + (Len(d.filename) + 2) + (PathLen(d.path) + 2) + Digits(d.size)
    + (IsoLen(d.created_at) + 2) + (IsoLen(d.modified_at) + 2)
    + (Len(d.owner) + 2) + (Len(d.permissions) + 2)
    + (IF d.is_encrypted THEN 4 ELSE 5)
    + 1 + 5

RECURSIVE EntriesLen(_, _)
EntriesLen(doc, ks) ==
    IF ks = {} THEN 0
    ELSE LET k == CHOOSE x \in ks : TRUE
         IN EntryLen(k, doc[k]) + EntriesLen(doc, ks \ {k})

\* Length of the document json.dump(data, f, indent=4) writes.
DocSize(doc) ==
    IF DOMAIN doc = {} THEN 2
    ELSE 2 + EntriesLen(doc, DOMAIN doc) + 2 * (Cardinality(DOMAIN doc) - 1) + 2

\* os.stat(path).st_size
StatSize(c) ==
    IF c.kind = "raw" THEN Len(c.data)
    ELSE IF c.kind = "json" THEN DocSize(c.doc)
    ELSE 0

(***************************************************************************)
(* Filesystem primitives                                                    *)
(***************************************************************************)
\* os.path.exists(path) for a path of the vault
PathExists(fs, ds, path) ==
    /\ path # NoPath
    /\ ds[Dirname(path)]
    /\ fs[Dirname(path)][Basename(path)] # Absent

WriteFile(fs, path, c) ==
    [fs EXCEPT ![Dirname(path)][Basename(path)] = c]

(***************************************************************************)
(* _load_metadata and _save_metadata                                        *)
(***************************************************************************)
\* LoadMetadata ignoring the document.
LoadMetadataEmpty(fs, ds, mf, readOk) == EmptyMap

\* _load_metadata: {} when the document is absent, unreadable or not JSON.
LoadMetadata(fs, ds, mf, readOk) ==
    IF PathExists(fs, ds, mf)
    THEN LET c == fs[Dirname(mf)][Basename(mf)]
         IN IF readOk /\ c.kind = "json"
            THEN [k \in DOMAIN c.doc |-> from_dict(c.doc[k])]
            ELSE EmptyMap
    ELSE EmptyMap

SaveOutcomes == {"ok", "openfail", "partial"}

\* SaveMetadata keeping the records of the document it replaces.
SaveMetadataMerge(fs, ds, mf, md, saveOut) ==
    IF mf = NoPath \/ ~ds[Dirname(mf)] \/ saveOut = "openfail"
    THEN fs
    ELSE IF saveOut = "partial"
         THEN WriteFile(fs, mf, Raw(<<>>))
         ELSE LET old == fs[Dirname(mf)][Basename(mf)]
                  kept == IF old.kind = "json" THEN old.doc ELSE EmptyMap
              IN WriteFile(fs, mf,
                     Json([k \in DOMAIN kept \cup DOMAIN md |->
                             IF k \in DOMAIN md THEN to_dict(md[k]) ELSE kept[k]]))

\* _save_metadata: the files after the call; every failure is swallowed.
\* "openfail": open() raises, nothing is written; "partial": open() has
\* truncated the document and json.dump fails before writing it.
SaveMetadata(fs, ds, mf, md, saveOut) ==
    IF mf = NoPath \/ ~ds[Dirname(mf)] \/ saveOut = "openfail"
    THEN fs
    ELSE IF saveOut = "partial"
         THEN WriteFile(fs, mf, Raw(<<>>))
         ELSE WriteFile(fs, mf, Json([k \in DOMAIN md |-> to_dict(md[k])]))

\* Whether the _save_metadata call wrote the whole document.
SaveStatus(ds, mf, saveOut) ==
    IF mf = NoPath \/ ~ds[Dirname(mf)] \/ saveOut # "ok" THEN "failed" ELSE "ok"

(***************************************************************************)
(* Initial state: FileManager(root_dir) on an empty root directory          *)
(***************************************************************************)
Init ==
    /\ current_user = None
    /\ user_dir = None
    /\ metadata_file = NoPath
    /\ metadata = EmptyMap
    /\ dirs = [u \in Users |-> FALSE]
    /\ dirAcl = [u \in Users |-> FALSE]
    /\ files = [u \in Users |-> [n \in Names |-> Absent]]
    /\ fileAcl = [u \in Users |-> {}]
    /\ lastOp = [op |-> "init", arg |-> <<>>, content |-> <<>>,
                 ret |-> "None", exit |-> "init", save |-> "none",
                 repeat |-> FALSE]
    /\ ops = 0
    /\ faulted = FALSE

(***************************************************************************)
(* set_user                                                                 *)
(***************************************************************************)
\* SetUserExcept swallowing the error as _save_metadata does.
SetUserExceptSwallow(out) == IF out = "raised" THEN "None" ELSE out

\* except clause of set_user (lines 99-101): log and re-raise.
SetUserExcept(out) == out

\* MakeDirs without exist_ok: an existing directory is an error.
MakeDirsNoExistOk(exists, mkdirOk) == ~exists /\ mkdirOk

\* os.makedirs(self.user_dir, exist_ok=True) (line 110): whether the
\* directory exists after the call.
MakeDirs(exists, mkdirOk) == exists \/ mkdirOk

\* set_user(username).  mkdirOk: os.makedirs succeeds when the directory is
\* missing; aclOk: the SID lookup and SetFileSecurity succeed; readOk: the
\* metadata document can be read.
SetUser(username, mkdirOk, aclOk, readOk) ==
    LET ud == username
        mf == PathJoin(ud, MetaName)
        made == MakeDirs(dirs[ud], mkdirOk)
        ds == [dirs EXCEPT ![ud] = made]
        out == IF ~made THEN "raised"
               ELSE IF ~aclOk THEN "raised"
               ELSE "None"
    IN /\ current_user' = username
       /\ user_dir' = ud
       /\ metadata_file' = mf
       /\ dirs' = ds
       /\ dirAcl' = IF made /\ aclOk THEN [dirAcl EXCEPT ![ud] = TRUE] ELSE dirAcl
       /\ metadata' = IF out = "None" THEN LoadMetadata(files, ds, mf, readOk)
                      ELSE metadata
       /\ UNCHANGED <<files, fileAcl>>
       /\ lastOp' = [op |-> "set_user", arg |-> <<username>>, content |-> <<>>,
                     ret |-> SetUserExcept(out),
                     exit |-> IF ~made THEN "mkdir_failed"
                              ELSE IF ~aclOk THEN "acl_failed" ELSE "ok",
                     save |-> "none",
                     repeat |-> (lastOp.op = "set_user" /\ lastOp.arg = <<username>>)]
       /\ faulted' = IF ~made \/ ~aclOk \/ (PathExists(files, ds, mf) /\ ~readOk)
                    THEN TRUE ELSE faulted

\* The outcome of a call the code does not reach is not an input: it is
\* fixed to success in the steps below.
SetUserStep ==
    \E username \in Users, mkdirOk \in BOOLEAN, aclOk \in BOOLEAN, readOk \in BOOLEAN :
        /\ ~mkdirOk => aclOk
        /\ ~(mkdirOk /\ aclOk) => readOk
        /\ SetUser(username, mkdirOk, aclOk, readOk)

(***************************************************************************)
(* _secure_file and _verify_user_access                                     *)
(***************************************************************************)
\* _secure_file(file_path): the files that carry the protected ACL after a
\* call whose SetFileSecurity succeeded.
SecureFile(fa, path) ==
    [fa EXCEPT ![Dirname(path)] = @ \cup {Basename(path)}]

\* VerifyProbeExcept letting the error of the probe escape.
VerifyProbeExceptReraise(out) == out

\* Inner except clause of _verify_user_access (lines 243-245): a failed
\* open or read is logged and answered with False.
VerifyProbeExcept(out) == IF out = "raised" THEN "False" ELSE out

\* What a call of _verify_user_access(file_path) ends in.
VerifyOutcome(fs, ds, path, probeOk) ==
    IF ~PathExists(fs, ds, path) THEN "False"
    ELSE VerifyProbeExcept(IF probeOk THEN "True" ELSE "raised")

\* VerifyUserAccess without the open/read probe.
VerifyUserAccessNoProbe(fs, ds, path, probeOk) == PathExists(fs, ds, path)

\* _verify_user_access(file_path): the path exists and the open/read probe
\* succeeds; no check of the directory the path lies in.
VerifyUserAccess(fs, ds, path, probeOk) ==
    VerifyOutcome(fs, ds, path, probeOk) = "True"

(***************************************************************************)
(* upload_file                                                              *)
(***************************************************************************)
CopyOutcomes == {"ok", "fail", "partial"}

\* UploadCollision with the existence check left out.
UploadCollisionSkipped(fs, ds, dest) == FALSE

\* Lines 273-276: the destination name is taken.
UploadCollision(fs, ds, dest) == PathExists(fs, ds, dest)

\* UploadExcept re-raising as set_user does.
UploadExceptReraise(out) == out

\* except clause of upload_file (lines 302-304): log and return False.
UploadExcept(out) == IF out = "raised" THEN "False" ELSE out

\* upload_file(source_path) for a source outside the vault with base name
\* `name`.  srcExists, srcReadable, content describe the source; copyOut is
\* the outcome of shutil.copy2 ("partial": the destination was created and
\* the copy failed before any byte was written), aclOk of _secure_file, ct
\* and mt the st_ctime and st_mtime of the destination, saveOut the outcome
\* of _save_metadata.
UploadFile(name, srcExists, srcReadable, content, copyOut, aclOk, ct, mt, saveOut) ==
    LET dest == PathJoin(user_dir, name)
        exit == IF current_user = None THEN "no_user"
                ELSE IF ~srcExists THEN "src_missing"
                ELSE IF ~srcReadable THEN "src_unreadable"
                ELSE IF UploadCollision(files, dirs, dest) THEN "collision"
                ELSE IF ~dirs[user_dir] \/ copyOut = "fail" THEN "copy_failed"
                ELSE IF copyOut = "partial" THEN "copy_partial"
                ELSE IF ~aclOk THEN "acl_failed"
                ELSE "ok"
        out == IF exit \in {"src_missing", "src_unreadable", "collision"} THEN "False"
               ELSE IF exit = "ok" THEN "True"
               ELSE "raised"
        copied == IF exit = "copy_partial" THEN WriteFile(files, dest, Raw(<<>>))
                  ELSE IF exit \in {"acl_failed", "ok"} THEN WriteFile(files, dest, Raw(content))
                  ELSE files
        file_metadata == FileMetadata(name, dest, StatSize(copied[user_dir][name]),
                                      ct, mt, current_user, Permissions, FALSE)
        md == [k \in DOMAIN metadata \cup {name} |->
                  IF k = name THEN file_metadata ELSE metadata[k]]
    IN /\ files' = IF exit = "ok"
                   THEN SaveMetadata(copied, dirs, metadata_file, md, saveOut)
                   ELSE copied
       /\ fileAcl' = IF exit = "ok" THEN SecureFile(fileAcl, dest) ELSE fileAcl
       /\ metadata' = IF exit = "ok" THEN md ELSE metadata
       /\ UNCHANGED <<current_user, user_dir, metadata_file, dirs, dirAcl>>
       /\ lastOp' = [op |-> "upload", arg |-> <<"src", name>>,
                     content |-> IF exit \in {"ok", "collision"} THEN content ELSE <<>>,
                     ret |-> UploadExcept(out), exit |-> exit,
                     save |-> IF exit = "ok"
                              THEN SaveStatus(dirs, metadata_file, saveOut)
                              ELSE "none",
                     repeat |-> (lastOp.op = "upload" /\ lastOp.arg = <<"src", name>>)]
       /\ faulted' = IF \/ exit \in {"copy_failed", "copy_partial", "acl_failed"}
                       \/ (exit = "ok" /\ SaveStatus(dirs, metadata_file, saveOut) = "failed")
                    THEN TRUE ELSE faulted

UploadStep ==
    \E name \in Names, srcExists \in BOOLEAN, srcReadable \in BOOLEAN,
       content \in Contents, copyOut \in CopyOutcomes, aclOk \in BOOLEAN,
       st \in StatTimes, saveOut \in SaveOutcomes :
        /\ ~srcExists => ~srcReadable
        /\ ~srcReadable => (content = <<>> /\ copyOut = "ok")
        /\ copyOut # "ok" => aclOk
        /\ ~aclOk => saveOut = "ok"
        /\ UploadFile(name, srcExists, srcReadable, content, copyOut, aclOk,
                      st.ct, st.mt, saveOut)

(***************************************************************************)
(* delete_file                                                              *)
(***************************************************************************)
\* except clause of delete_file (lines 326-328): log and return False.
DeleteExcept(out) == IF out = "raised" THEN "False" ELSE out

\* Lines 317-321: the mapping after the entry of `filename`, if any, is gone.
DeleteEntry(md, filename) ==
    [k \in DOMAIN md \ {filename} |-> md[k]]

\* delete_file(file_path) for a path of the vault.  probeOk is the outcome
\* of the open/read probe, removeOk of os.remove on an existing file (it
\* raises on a missing one), saveOut of _save_metadata.
DeleteFile(file_path, probeOk, removeOk, saveOut) ==
    LET filename == Basename(file_path)
        exit == IF ~VerifyUserAccess(files, dirs, file_path, probeOk) THEN "access_denied"
                ELSE IF ~removeOk \/ ~PathExists(files, dirs, file_path) THEN "remove_failed"
                ELSE "ok"
        out == IF exit = "access_denied" THEN "False"
               ELSE IF exit = "remove_failed" THEN "raised"
               ELSE "True"
        removed == WriteFile(files, file_path, Absent)
        md == DeleteEntry(metadata, filename)
    IN /\ files' = IF exit # "ok" THEN files
                   ELSE IF filename \in DOMAIN metadata
                        THEN SaveMetadata(removed, dirs, metadata_file, md, saveOut)
                        ELSE removed
       /\ fileAcl' = IF exit = "ok"
                     THEN [fileAcl EXCEPT ![Dirname(file_path)] = @ \ {filename}]
                     ELSE fileAcl
       /\ metadata' = IF exit = "ok" THEN md ELSE metadata
       /\ UNCHANGED <<current_user, user_dir, metadata_file, dirs, dirAcl>>
       /\ lastOp' = [op |-> "delete", arg |-> file_path, content |-> <<>>,
                     ret |-> DeleteExcept(out), exit |-> exit,
                     save |-> IF exit = "ok" /\ filename \in DOMAIN metadata
                              THEN SaveStatus(dirs, metadata_file, saveOut)
                              ELSE "none",
                     repeat |-> (lastOp.op = "delete" /\ lastOp.arg = file_path)]
       /\ faulted' = IF \/ (exit = "access_denied" /\ PathExists(files, dirs, file_path))
                       \/ exit = "remove_failed"
                       \/ (/\ exit = "ok"
                           /\ filename \in DOMAIN metadata
                           /\ SaveStatus(dirs, metadata_file, saveOut) = "failed")
                    THEN TRUE ELSE faulted

DeleteStep ==
    \E u \in Users, name \in Names, probeOk \in BOOLEAN, removeOk \in BOOLEAN,
       saveOut \in SaveOutcomes :
        /\ ~probeOk => removeOk
        /\ ~removeOk => saveOut = "ok"
        /\ DeleteFile(PathJoin(u, name), probeOk, removeOk, saveOut)

\* One call of the caller's program; runs are cut after MaxOps calls.
Call(A) == ops < MaxOps /\ A /\ ops' = ops + 1

Next ==
    \/ Call(SetUserStep)
    \/ Call(UploadStep)
    \/ Call(DeleteStep)

Spec == Init /\ [][Next]_vars

(***************************************************************************)
(* Properties                                                               *)
(***************************************************************************)
\* The persisted metadata document of user u, as a load would read it.
Persisted(fs, ds, u) == LoadMetadata(fs, ds, PathJoin(u, MetaName), TRUE)

\* C1: an upload whose base name already names a file of the active user's
\* directory returns False and changes no file (so neither the existing
\* file nor the persisted document) and not the in-memory mapping.
NoOverwriteOnCollision ==
    [][(/\ lastOp'.op = "upload"
        /\ current_user # None
        /\ PathExists(files, dirs, PathJoin(user_dir, lastOp'.arg[2])))
       => (/\ lastOp'.ret = "False"
           /\ files' = files
           /\ metadata' = metadata)]_vars

\* An upload was refused for a name whose file holds other bytes than the source.
CollisionRefused ==
    /\ lastOp.op = "upload"
    /\ lastOp.exit = "collision"
    /\ files[current_user][lastOp.arg[2]].kind = "raw"
    /\ files[current_user][lastOp.arg[2]].data # lastOp.content
    /\ lastOp.arg[2] \in DOMAIN metadata

\* C2 (as claimed): in a run without any filesystem or ACL failure, a
\* delete_file that follows a successful upload of F by the active user, is
\* given F's destination path and returns True, leaves no file F in the
\* directory and no entry F in the persisted document.
DeleteRemovesBothArtifacts ==
    [][(/\ ~faulted'
        /\ lastOp.op = "upload"
        /\ lastOp.ret = "True"
        /\ lastOp'.op = "delete"
        /\ lastOp'.arg = PathJoin(user_dir, lastOp.arg[2])
        /\ lastOp'.ret = "True")
       => (/\ ~PathExists(files', dirs', lastOp'.arg)
           /\ lastOp.arg[2] \notin DOMAIN Persisted(files', dirs', current_user))]_vars

\* C3 (as claimed): an upload of an ordinary file whose _save_metadata call
\* could not write the document (the first failure of the run) returns False.
UploadReportsSaveFailure ==
    [][(/\ lastOp'.op = "upload"
        /\ lastOp'.arg[2] # MetaName
        /\ lastOp'.save = "failed"
        /\ ~faulted)
       => lastOp'.ret = "False"]_vars

\* C4: upload_file returns a boolean, never raises, and returns False when
\* no user is active, the source is missing or unreadable, the copy fails
\* or the ACL step fails.
UploadNeverRaises ==
    [][lastOp'.op = "upload"
       => (/\ lastOp'.ret \in {"True", "False"}
           /\ current_user = None => lastOp'.ret = "False"
           /\ lastOp'.exit \in {"no_user", "src_missing", "src_unreadable",
                                 "copy_failed", "copy_partial", "acl_failed"}
                => lastOp'.ret = "False")]_vars

\* An upload whose ACL step raised after the copy has returned False.
UploadAclFailureReturned ==
    /\ lastOp.op = "upload"
    /\ lastOp.arg[2] # MetaName
    /\ lastOp.exit = "acl_failed"
    /\ lastOp.ret = "False"
    /\ PathExists(files, dirs, PathJoin(user_dir, lastOp.arg[2]))

\* C5 (as claimed): in a run without any filesystem or ACL failure, after
\* an upload that returned True the destination file exists and holds the
\* source's bytes, whatever the base name.
ByteExactUpload ==
    (lastOp.op = "upload" /\ lastOp.ret = "True" /\ ~faulted)
    => (/\ PathExists(files, dirs, PathJoin(user_dir, lastOp.arg[2]))
        /\ files[user_dir][lastOp.arg[2]] = Raw(lastOp.content))

\* C6 (as claimed): in a run without any filesystem or ACL failure, after
\* an upload that returned True the mapping has an entry for the base name
\* with that filename, the active user as owner, the destination path and
\* the destination file's size; the other entries are as before.
UploadBookkeeping ==
    [][(lastOp'.op = "upload" /\ lastOp'.ret = "True" /\ ~faulted')
       => LET name == lastOp'.arg[2]
          IN /\ name \in DOMAIN metadata'
             /\ metadata'[name].filename = name
             /\ metadata'[name].owner = current_user
             /\ metadata'[name].path = PathJoin(user_dir, name)
             /\ metadata'[name].size = StatSize(files'[user_dir][name])
             /\ DOMAIN metadata' \ {name} = DOMAIN metadata \ {name}
             /\ \A k \in DOMAIN metadata \ {name} : metadata'[k] = metadata[k]]_vars

\* C7: a delete_file whose verification fails (the path is absent or the
\* probe fails) returns False, removes no file and changes neither the
\* mapping nor any persisted document.
DeletePrecondition ==
    [][lastOp'.op = "delete"
       => \A probeOk \in BOOLEAN, removeOk \in BOOLEAN, saveOut \in SaveOutcomes :
            (/\ DeleteFile(lastOp'.arg, probeOk, removeOk, saveOut)
             /\ ~(PathExists(files, dirs, lastOp'.arg) /\ probeOk))
            => (/\ lastOp'.ret = "False"
                /\ files' = files
                /\ metadata' = metadata)]_vars

\* A delete was refused for a file that exists and has a metadata entry.
DeleteRefusedOnProbe ==
    /\ lastOp.op = "delete"
    /\ lastOp.exit = "access_denied"
    /\ lastOp.ret = "False"
    /\ PathExists(files, dirs, lastOp.arg)
    /\ Basename(lastOp.arg) # MetaName
    /\ Basename(lastOp.arg) \in DOMAIN metadata

\* C8 (as claimed): in a run without any filesystem or ACL failure,
\* deleting an existing, readable file whose base name is no key of the
\* mapping removes it, returns True and changes neither the mapping nor any
\* persisted document.
DeleteWithoutEntry ==
    [][(lastOp'.op = "delete" /\ ~faulted')
       => \A saveOut \in SaveOutcomes :
            (/\ DeleteFile(lastOp'.arg, TRUE, TRUE, saveOut)
             /\ PathExists(files, dirs, lastOp'.arg)
             /\ Basename(lastOp'.arg) \notin DOMAIN metadata)
            => (/\ lastOp'.ret = "True"
                /\ ~PathExists(files', dirs', lastOp'.arg)
                /\ metadata' = metadata
                /\ \A u \in Users : files'[u][MetaName] = files[u][MetaName])]_vars

\* C9 (as claimed): in a run without any filesystem or ACL failure, every
\* filename of a user's persisted document names a file that exists in that
\* user's directory.
MetadataImpliesFile ==
    ~faulted => \A u \in Users :
        \A k \in DOMAIN Persisted(files, dirs, u) :
            PathExists(files, dirs, PathJoin(u, k))

\* C10: a set_user whose ACL step on the user directory fails raises.
ProvisioningFailureRaised ==
    [][lastOp'.op = "set_user"
       => \A mkdirOk \in BOOLEAN, readOk \in BOOLEAN :
            (/\ SetUser(lastOp'.arg[1], mkdirOk, FALSE, readOk)
             /\ (dirs[lastOp'.arg[1]] \/ mkdirOk))
            => lastOp'.ret = "raised"]_vars

\* A set_user has raised on the ACL step with the directory made.
SetUserAclFailureRaised ==
    /\ lastOp.op = "set_user"
    /\ lastOp.exit = "acl_failed"
    /\ lastOp.ret = "raised"
    /\ dirs[current_user]
    /\ ~dirAcl[current_user]

\* C11 (as claimed): every file an upload has copied into a user's directory
\* carries the protected ACL, also after an upload whose ACL step failed
\* (the first failure of the run).
EveryStoredFileSecured ==
    [][(lastOp'.op = "upload" /\ ~faulted)
       => \A u \in Users : \A n \in Names \ {MetaName} :
            PathExists(files', dirs', PathJoin(u, n)) => n \in fileAcl'[u]]_vars

(***************************************************************************)
(* Save / load round trip: _save_metadata followed by _load_metadata on a   *)
(* mapping of arbitrary records                                             *)
(***************************************************************************)
\* Timestamps with a zero and a non-zero fraction of a second.
RTStamps == {0, 1, MicrosPerSecond + 1}

RTRecords ==
    {FileMetadata(n, PathJoin(o, n), sz, c, m, o, Permissions, e) :
        n \in Names, o \in Users, sz \in 0..MaxLen,
        c \in RTStamps, m \in RTStamps, e \in BOOLEAN}

RTMappings == UNION {[ks -> RTRecords] : ks \in SUBSET Names}

\* A manager whose user is set on a provisioned, empty directory and whose
\* mapping holds any records.
RTInit ==
    /\ current_user = "alice"
    /\ user_dir = "alice"
    /\ metadata_file = PathJoin("alice", MetaName)
    /\ metadata \in RTMappings
    /\ dirs = [u \in Users |-> u = "alice"]
    /\ dirAcl = [u \in Users |-> u = "alice"]
    /\ files = [u \in Users |-> [n \in Names |-> Absent]]
    /\ fileAcl = [u \in Users |-> {}]
    /\ lastOp = [op |-> "init", arg |-> <<>>, content |-> <<>>,
                 ret |-> "None", exit |-> "init", save |-> "none",
                 repeat |-> FALSE]
    /\ ops = 0
    /\ faulted = FALSE

\* _save_metadata()
RTSave ==
    \E saveOut \in SaveOutcomes :
        /\ lastOp.op = "init"
        /\ files' = SaveMetadata(files, dirs, metadata_file, metadata, saveOut)
        /\ lastOp' = [lastOp EXCEPT !.op = "save",
                                    !.save = SaveStatus(dirs, metadata_file, saveOut)]
        /\ faulted' = (saveOut # "ok")
        /\ UNCHANGED <<current_user, user_dir, metadata_file, metadata,
                       dirs, dirAcl, fileAcl, ops>>

\* self.metadata = self._load_metadata()
RTLoad ==
    /\ lastOp.op = "save"
    /\ metadata' = LoadMetadata(files, dirs, metadata_file, TRUE)
    /\ lastOp' = [lastOp EXCEPT !.op = "load"]
    /\ UNCHANGED <<current_user, user_dir, metadata_file,
                   dirs, dirAcl, files, fileAcl, ops, faulted>>

RTNext ==
    \/ RTSave
    \/ RTLoad

SpecRoundTrip == RTInit /\ [][RTNext]_vars

\* C12: loading after a save that wrote the document yields a mapping with
\* the same keys and, per key, equal filename, path, size, created_at,
\* modified_at, owner, permissions and is_encrypted.
SaveLoadRoundTrip ==
    [][(lastOp'.op = "load" /\ lastOp.save = "ok")
       => (/\ DOMAIN metadata' = DOMAIN metadata
           /\ \A k \in DOMAIN metadata :
                /\ metadata'[k].filename = metadata[k].filename
                /\ metadata'[k].path = metadata[k].path
                /\ metadata'[k].size = metadata[k].size
                /\ metadata'[k].created_at = metadata[k].created_at
                /\ metadata'[k].modified_at = metadata[k].modified_at
                /\ metadata'[k].owner = metadata[k].owner
                /\ metadata'[k].permissions = metadata[k].permissions
                /\ metadata'[k].is_encrypted = metadata[k].is_encrypted)]_vars

\* A mapping of two records, one with a fraction of a second in created_at
\* and none in modified_at, has been saved and loaded.
RoundTripDone ==
    /\ lastOp.op = "load"
    /\ lastOp.save = "ok"
    /\ Cardinality(DOMAIN metadata) = 2
    /\ \E k \in DOMAIN metadata :
         /\ metadata[k].created_at % MicrosPerSecond # 0
         /\ metadata[k].modified_at % MicrosPerSecond = 0
         /\ metadata[k].filename # k

\* C13: a set_user that repeats a set_user for the same user which returned
\* normally and loaded the user's document, and whose own platform calls
\* succeed, returns normally and leaves the directories, their ACLs, the
\* files, their ACLs and the loaded mapping as they were.
IdempotentProvisioning ==
    [][(/\ lastOp'.op = "set_user"
        /\ lastOp'.repeat
        /\ lastOp.ret = "None"
        /\ metadata = Persisted(files, dirs, current_user))
       => \A mkdirOk \in BOOLEAN :
            SetUser(lastOp'.arg[1], mkdirOk, TRUE, TRUE)
            => (/\ lastOp'.ret = "None"
                /\ dirs' = dirs
                /\ dirAcl' = dirAcl
                /\ files' = files
                /\ fileAcl' = fileAcl
                /\ metadata' = metadata)]_vars

\* set_user has been called twice in succession for a user who has a file
\* and a record of it.
ProvisionedTwice ==
    /\ lastOp.op = "set_user"
    /\ lastOp.repeat
    /\ lastOp.ret = "None"
    /\ dirAcl[current_user]
    /\ metadata # EmptyMap
    /\ metadata = Persisted(files, dirs, current_user)

(***************************************************************************)
(* _verify_user_access called on its own, on any contents of the vault      *)
(***************************************************************************)
VerifyInit ==
    /\ current_user = None
    /\ user_dir = None
    /\ metadata_file = NoPath
    /\ metadata = EmptyMap
    /\ dirs \in [Users -> BOOLEAN]
    /\ dirAcl = [u \in Users |-> FALSE]
    /\ files \in [Users -> [Names -> {Absent} \cup {Raw(c) : c \in Contents}]]
    /\ \A u \in Users : ~dirs[u] => \A n \in Names : files[u][n] = Absent
    /\ fileAcl = [u \in Users |-> {}]
    /\ lastOp = [op |-> "init", arg |-> <<>>, content |-> <<>>,
                 ret |-> "None", exit |-> "init", save |-> "none",
                 repeat |-> FALSE]
    /\ ops = 0
    /\ faulted = FALSE

\* _verify_user_access(file_path); probeOk is the outcome of the open/read
\* probe of an existing path.
VerifyCall(file_path, probeOk) ==
    /\ lastOp' = [op |-> "verify", arg |-> file_path, content |-> <<>>,
                  ret |-> VerifyOutcome(files, dirs, file_path, probeOk),
                  exit |-> IF ~PathExists(files, dirs, file_path) THEN "missing"
                           ELSE IF probeOk THEN "ok" ELSE "probe_failed",
                  save |-> "none",
                  repeat |-> (lastOp.op = "verify" /\ lastOp.arg = file_path)]
    /\ faulted' = (faulted \/ (PathExists(files, dirs, file_path) /\ ~probeOk))
    /\ UNCHANGED <<current_user, user_dir, metadata_file, metadata,
                   dirs, dirAcl, files, fileAcl, ops>>

VerifyStep ==
    \E u \in Users, name \in Names, probeOk \in BOOLEAN :
        /\ ~PathExists(files, dirs, PathJoin(u, name)) => probeOk
        /\ VerifyCall(PathJoin(u, name), probeOk)

VerifyNext == VerifyStep

SpecVerify == VerifyInit /\ [][VerifyNext]_vars

UserSwitchSwapsMapping ==
    [][(lastOp'.op = "set_user" /\ lastOp'.ret = "None")
       => \A mkdirOk \in BOOLEAN, aclOk \in BOOLEAN, readOk \in BOOLEAN :
            SetUser(lastOp'.arg[1], mkdirOk, aclOk, readOk)
            => LET u == lastOp'.arg[1]
                   c == files[u][MetaName]
               IN /\ IF dirs[u] /\ c.kind = "json" /\ readOk
                     THEN /\ DOMAIN metadata' = DOMAIN c.doc
                          /\ \A k \in DOMAIN c.doc :
                                /\ to_dict(metadata'[k]) = c.doc[k]
                                /\ metadata'[k].filename = c.doc[k].filename
                                /\ metadata'[k].owner = c.doc[k].owner
                                /\ metadata'[k].size = c.doc[k].size
                     ELSE metadata' = EmptyMap
                  /\ files' = files
                  /\ \A v \in Users \ {u} :
                        Persisted(files', dirs', v) = Persisted(files, dirs, v)]_vars

\* A switch has left the mapping empty although another user, the one
\* active before, has a document with records.
SwitchedAwayFromRecords ==
    /\ lastOp.op = "set_user"
    /\ lastOp.ret = "None"
    /\ ~faulted
    /\ metadata = EmptyMap
    /\ \E v \in Users \ {current_user} : Persisted(files, dirs, v) # EmptyMap

\* C16 (as claimed): after an upload_file or delete_file call that returns
\* True, the persisted document of the active user holds the same keys and
\* records as the in-memory mapping.
PersistedAfterMutation ==
    [][(/\ lastOp'.op \in {"upload", "delete"}
        /\ lastOp'.ret = "True"
        /\ ~faulted
        /\ current_user # None
        /\ Basename(lastOp'.arg) # MetaName)
       => Persisted(files', dirs', current_user') = metadata']_vars

\* C18 (as claimed): a delete_file call whose path lies outside the active
\* user's directory, or that is made while no user is set, removes no file
\* and no entry of the mapping.
DeleteConfinedToUserDir ==
    [][(/\ lastOp'.op = "delete"
        /\ ~faulted'
        /\ Basename(lastOp'.arg) # MetaName
        /\ (current_user = None \/ Dirname(lastOp'.arg) # user_dir))
       => (files' = files /\ metadata' = metadata)]_vars

\* C19 (as claimed): an upload_file call that returns False leaves the
\* files of the user's directory, the mapping and the persisted document
\* as they were before the call.
FailedUploadChangesNothing ==
    [][(/\ lastOp'.op = "upload"
        /\ lastOp'.ret = "False"
        /\ ~faulted
        /\ current_user # None
        /\ lastOp'.arg[2] # MetaName)
       => (/\ files' = files
           /\ metadata' = metadata
           /\ Persisted(files', dirs', current_user)
                = Persisted(files, dirs, current_user))]_vars

\* C20 (as claimed): every record of the mapping is owned by the current
\* user, and every record of a user's persisted document by that user
\* (stated for the records of files other than the document itself).
NoCrossUserRecords ==
    /\ \A k \in DOMAIN metadata \ {MetaName} : metadata[k].owner = current_user
    /\ \A u \in Users :
         \A k \in DOMAIN Persisted(files, dirs, u) \ {MetaName} :
            Persisted(files, dirs, u)[k].owner = u

(***************************************************************************)
(* Two FileManager objects on one root directory, their calls interleaved   *)
(* without any lock; every platform call succeeds.  The fields of the       *)
(* objects (current_user, user_dir, metadata_file, metadata) are functions  *)
(* of the session, and lastOp holds the last call of each session.          *)
(***************************************************************************)
Sessions == {1, 2}

ConcNames == {"a.txt", "b.txt"}

ConcInit ==
    /\ current_user = [s \in Sessions |-> None]
    /\ user_dir = [s \in Sessions |-> None]
    /\ metadata_file = [s \in Sessions |-> NoPath]
    /\ metadata = [s \in Sessions |-> EmptyMap]
    /\ dirs = [u \in Users |-> FALSE]
    /\ dirAcl = [u \in Users |-> FALSE]
    /\ files = [u \in Users |-> [n \in ConcNames \cup {MetaName} |-> Absent]]
    /\ fileAcl = [u \in Users |-> {}]
    /\ lastOp = [s \in Sessions |->
                   [op |-> "init", arg |-> <<>>, content |-> <<>>,
                    ret |-> "None", exit |-> "init", save |-> "none",
                    repeat |-> FALSE]]
    /\ ops = 0
    /\ faulted = FALSE

\* set_user(username) of session s.
ConcSetUser(s, username) ==
    LET ud == username
        mf == PathJoin(ud, MetaName)
        ds == [dirs EXCEPT ![ud] = MakeDirs(dirs[ud], TRUE)]
    IN /\ current_user' = [current_user EXCEPT ![s] = username]
       /\ user_dir' = [user_dir EXCEPT ![s] = ud]
       /\ metadata_file' = [metadata_file EXCEPT ![s] = mf]
       /\ dirs' = ds
       /\ dirAcl' = [dirAcl EXCEPT ![ud] = TRUE]
       /\ metadata' = [metadata EXCEPT ![s] = LoadMetadata(files, ds, mf, TRUE)]
       /\ lastOp' = [lastOp EXCEPT ![s] =
                       [op |-> "set_user", arg |-> <<username>>, content |-> <<>>,
                        ret |-> SetUserExcept("None"), exit |-> "ok",
                        save |-> "none",
                        repeat |-> (lastOp[s].op = "set_user"
                                    /\ lastOp[s].arg = <<username>>)]]
       /\ UNCHANGED <<files, fileAcl, faulted>>

\* upload_file of session s for an existing readable source file with base
\* name `name`.
ConcUpload(s, name, content, ct, mt) ==
    LET dest == PathJoin(user_dir[s], name)
        exit == IF current_user[s] = None THEN "no_user"
                ELSE IF UploadCollision(files, dirs, dest) THEN "collision"
                ELSE "ok"
        out == IF exit = "collision" THEN "False"
               ELSE IF exit = "ok" THEN "True"
               ELSE "raised"
        copied == IF exit = "ok" THEN WriteFile(files, dest, Raw(content)) ELSE files
        file_metadata == FileMetadata(name, dest, StatSize(Raw(content)),
                                      ct, mt, current_user[s], Permissions, FALSE)
        md == [k \in DOMAIN metadata[s] \cup {name} |->
                  IF k = name THEN file_metadata ELSE metadata[s][k]]
    IN /\ files' = IF exit = "ok"
                   THEN SaveMetadata(copied, dirs, metadata_file[s], md, "ok")
                   ELSE files
       /\ fileAcl' = IF exit = "ok" THEN SecureFile(fileAcl, dest) ELSE fileAcl
       /\ metadata' = IF exit = "ok" THEN [metadata EXCEPT ![s] = md] ELSE metadata
       /\ lastOp' = [lastOp EXCEPT ![s] =
                       [op |-> "upload", arg |-> <<"src", name>>,
                        content |-> IF exit = "ok" THEN content ELSE <<>>,
                        ret |-> UploadExcept(out), exit |-> exit,
                        save |-> IF exit = "ok" THEN "ok" ELSE "none",
                        repeat |-> (lastOp[s].op = "upload"
                                    /\ lastOp[s].arg = <<"src", name>>)]]
       /\ UNCHANGED <<current_user, user_dir, metadata_file, dirs, dirAcl, faulted>>

ConcSetUserStep ==
    \E s \in Sessions, username \in Users : ConcSetUser(s, username)

ConcUploadStep ==
    \E s \in Sessions, name \in ConcNames, content \in Contents, st \in StatTimes :
        ConcUpload(s, name, content, st.ct, st.mt)

ConcNext ==
    \/ Call(ConcSetUserStep)
    \/ Call(ConcUploadStep)

SpecConcurrent == ConcInit /\ [][ConcNext]_vars

\* C17: the document is rewritten from the mapping of the session that
\* saves: after an upload of session s that returns True, the persisted
\* document of its user holds exactly the records of s's own mapping, so
\* a record another session has saved since s loaded the document is gone.
LastWriterWins ==
    [][\A s \in Sessions :
         (/\ lastOp'[s] # lastOp[s]
          /\ lastOp'[s].op = "upload"
          /\ lastOp'[s].ret = "True")
         => Persisted(files', dirs', current_user[s]) = metadata'[s]]_vars

\* Both sessions are on one user, the last upload of each returned True,
\* for different names, both files are in the user's directory, and the
\* persisted document holds the record of only one of them.
LostUpdate ==
    \E u \in Users :
        /\ \A s \in Sessions :
              /\ current_user[s] = u
              /\ lastOp[s].op = "upload"
              /\ lastOp[s].ret = "True"
        /\ lastOp[1].arg # lastOp[2].arg
        /\ \A s \in Sessions : PathExists(files, dirs, PathJoin(u, lastOp[s].arg[2]))
        /\ \E s \in Sessions :
              DOMAIN Persisted(files, dirs, u) = {lastOp[s].arg[2]}
====
